---- MODULE Spec2Model ----
(***************************************************************************)
(* Model of scripts/fix-duplicate-methods.py: the replace-all repair of    *)
(* the duplicated getPrioritizedPages method in src/services.tsx.          *)
(*                                                                         *)
(* A document is a sequence of text chunks.  The chunks are the pieces of  *)
(* text out of which the two search patterns and the canonical block are   *)
(* built, so that partial markers, markers straddling a splice point and   *)
(* the name without its parenthesis can all be written down:               *)
(*    "NL"  = "\n"                 "IND" = "    " (four spaces)            *)
(*    "PA"  = "private async "     "GPP" = "getPrioritizedPages"           *)
(*    "ODS" = "optimizeDOMSurgically"   "LP" = "("   "X" = any other text  *)
(* Offsets are 0-based and slices half-open, as in Python.                 *)
(***************************************************************************)
EXTENDS Integers, Sequences, FiniteSets, TLC

VARIABLES file, content, pc, first_match, start_pos, next_method, end_pos,
          fixed_content, stdout, exit_code, runs, nreads, nopens, nwrites,
          orig, before, exits

vars == <<file, content, pc, first_match, start_pos, next_method, end_pos,
          fixed_content, stdout, exit_code, runs, nreads, nopens, nwrites,
          orig, before, exits>>

(* ------------------------------ bounds --------------------------------- *)
MaxPieces == 4
MaxRuns == 3

(* --------------------------- program text ------------------------------ *)
None == -1

\* r'private async getPrioritizedPages\('
MethodPattern == <<"PA", "GPP", "LP">>

\* r'\n    private async optimizeDOMSurgically\('
AnchorPattern == <<"NL", "IND", "PA", "ODS", "LP">>

\* 'private async getPrioritizedPages'  (the argument of str.count)
MethodName == <<"PA", "GPP">>

\* CLEAN_METHOD without its method header: a block that no later run can find
CLEAN_METHOD_NoHeader == <<"IND", "X", "NL", "IND", "X", "NL">>

\* CLEAN_METHOD: "    private async getPrioritizedPages(" ... "\n    }\n"
CLEAN_METHOD == <<"IND", "PA", "GPP", "LP", "X", "NL", "IND", "X", "NL">>

(* ---------------------------- pure helpers ----------------------------- *)
\* s[a:b]
Slice(s, a, b) == SubSeq(s, a + 1, b)

\* pat matches s at 0-based offset i
MatchAt(pat, s, i) ==
    /\ i >= 0
    /\ i + Len(pat) <= Len(s)
    /\ \A k \in 1..Len(pat) : s[i + k] = pat[k]

RECURSIVE SearchFrom(_, _, _)
SearchFrom(pat, s, i) ==
    IF i + Len(pat) > Len(s) THEN None
    ELSE IF MatchAt(pat, s, i) THEN i
    ELSE SearchFrom(pat, s, i + 1)

\* re.search(pat, s): start of the leftmost match, None when there is none
re_search(pat, s) == SearchFrom(pat, s, 0)

RECURSIVE CountFrom(_, _, _)
CountFrom(sub, s, i) ==
    IF i + Len(sub) > Len(s) THEN 0
    ELSE IF MatchAt(sub, s, i) THEN 1 + CountFrom(sub, s, i + Len(sub))
    ELSE CountFrom(sub, s, i + 1)

\* s.count(sub): number of non-overlapping occurrences
str_count_paren(s, sub) == CountFrom(sub \o <<"LP">>, s, 0)

str_count(s, sub) == CountFrom(sub, s, 0)

\* content[:start_pos] + CLEAN_METHOD + content[end_pos:]
Splice_KeepSpan(c, sp, ep) == Slice(c, 0, sp) \o CLEAN_METHOD \o Slice(c, sp, Len(c))

Splice_SkipOne(c, sp, ep) ==
    Slice(c, 0, sp) \o CLEAN_METHOD \o Slice(c, ep + 1, Len(c))

Splice(c, sp, ep) == Slice(c, 0, sp) \o CLEAN_METHOD \o Slice(c, ep, Len(c))

\* content[start_pos:] handed to the second search
SearchRegion_Whole(c, sp) == c

SearchRegion(c, sp) == Slice(c, sp, Len(c))

(* ------------------------- input documents ----------------------------- *)
Pieces == { MethodPattern, AnchorPattern, MethodName,
            <<"ODS", "LP">>, <<"X">>, <<"NL">>, <<"IND">>, <<"PA">> }

RECURSIVE Concats(_)
Concats(n) ==
    IF n = 0 THEN { <<>> }
    ELSE LET shorter == Concats(n - 1)
         IN  shorter \cup { d \o p : d \in shorter, p \in Pieces }

Documents == Concats(MaxPieces)

(* ------------------------------ the run -------------------------------- *)
Terminal == {"done", "exited"}

Init ==
    /\ file \in Documents
    /\ content = <<>>
    /\ pc = "read"
    /\ first_match = None
    /\ start_pos = None
    /\ next_method = None
    /\ end_pos = None
    /\ fixed_content = <<>>
    /\ stdout = <<>>
    /\ exit_code = None
    /\ runs = 1
    /\ nreads = 0
    /\ nopens = 0
    /\ nwrites = 0
    /\ orig = file
    /\ before = file
    /\ exits = <<>>

\* with open('src/services.tsx', 'r') as f: content = f.read()
ReadFile ==
    /\ pc = "read"
    /\ content' = file
    /\ nreads' = nreads + 1
    /\ pc' = "search_first"
    /\ UNCHANGED <<file, first_match, start_pos, next_method, end_pos,
                   fixed_content, stdout, exit_code, runs, nopens, nwrites,
                   orig, before, exits>>

\* the first search with its exit(1) replaced by carrying on from offset 0
SearchFirst_NoExit ==
    /\ pc = "search_first"
    /\ first_match' = re_search(MethodPattern, content)
    /\ IF first_match' = None
       THEN /\ stdout' = Append(stdout, <<"no_getPrioritizedPages", 0>>)
            /\ start_pos' = 0
            /\ pc' = "search_next"
            /\ UNCHANGED exit_code
       ELSE /\ start_pos' = first_match'
            /\ pc' = "search_next"
            /\ UNCHANGED <<stdout, exit_code>>
    /\ UNCHANGED <<file, content, next_method, end_pos, fixed_content, runs,
                   nreads, nopens, nwrites, orig, before, exits>>

\* first_match = re.search(...); if not first_match: print; exit(1);
\* start_pos = first_match.start()
SearchFirst ==
    /\ pc = "search_first"
    /\ first_match' = re_search(MethodPattern, content)
    /\ IF first_match' = None
       THEN /\ stdout' = Append(stdout, <<"no_getPrioritizedPages", 0>>)
            /\ exit_code' = 1
            /\ pc' = "exited"
            /\ UNCHANGED start_pos
       ELSE /\ start_pos' = first_match'
            /\ pc' = "search_next"
            /\ UNCHANGED <<stdout, exit_code>>
    /\ UNCHANGED <<file, content, next_method, end_pos, fixed_content, runs,
                   nreads, nopens, nwrites, orig, before, exits>>

\* the second search with its exit(1) replaced by falling through
SearchNext_NoExit ==
    /\ pc = "search_next"
    /\ next_method' = re_search(AnchorPattern, SearchRegion(content, start_pos))
    /\ IF next_method' = None
       THEN /\ stdout' = Append(stdout, <<"no_optimizeDOMSurgically", 0>>)
            /\ end_pos' = Len(content)
            /\ pc' = "splice"
            /\ UNCHANGED exit_code
       ELSE /\ end_pos' = start_pos + next_method'
            /\ pc' = "splice"
            /\ UNCHANGED <<stdout, exit_code>>
    /\ UNCHANGED <<file, content, first_match, start_pos, fixed_content, runs,
                   nreads, nopens, nwrites, orig, before, exits>>

\* next_method = re.search(..., content[start_pos:]); if not next_method:
\* print; exit(1); end_pos = start_pos + next_method.start()
SearchNext ==
    /\ pc = "search_next"
    /\ next_method' = re_search(AnchorPattern, SearchRegion(content, start_pos))
    /\ IF next_method' = None
       THEN /\ stdout' = Append(stdout, <<"no_optimizeDOMSurgically", 0>>)
            /\ exit_code' = 1
            /\ pc' = "exited"
            /\ UNCHANGED end_pos
       ELSE /\ end_pos' = start_pos + next_method'
            /\ pc' = "splice"
            /\ UNCHANGED <<stdout, exit_code>>
    /\ UNCHANGED <<file, content, first_match, start_pos, fixed_content, runs,
                   nreads, nopens, nwrites, orig, before, exits>>

\* fixed_content = content[:start_pos] + CLEAN_METHOD + content[end_pos:]
ComputeFixed ==
    /\ pc = "splice"
    /\ fixed_content' = Splice(content, start_pos, end_pos)
    /\ pc' = "open"
    /\ UNCHANGED <<file, content, first_match, start_pos, next_method, end_pos,
                   stdout, exit_code, runs, nreads, nopens, nwrites,
                   orig, before, exits>>

\* open('src/services.tsx', 'w'): the file is truncated when it is opened
OpenForWrite ==
    /\ pc = "open"
    /\ file' = <<>>
    /\ nopens' = nopens + 1
    /\ pc' = "write"
    /\ UNCHANGED <<content, first_match, start_pos, next_method, end_pos,
                   fixed_content, stdout, exit_code, runs, nreads, nwrites,
                   orig, before, exits>>

\* a write-back that is skipped when the span held a single copy
WriteBack_OnlyDuplicates ==
    /\ pc = "write"
    /\ IF str_count(Slice(content, start_pos, end_pos), MethodName) > 1
       THEN file' = fixed_content /\ nwrites' = nwrites + 1
       ELSE file' = content /\ UNCHANGED nwrites
    /\ pc' = "report"
    /\ UNCHANGED <<content, first_match, start_pos, next_method, end_pos,
                   fixed_content, stdout, exit_code, runs, nreads, nopens,
                   orig, before, exits>>

\* f.write(fixed_content), and the close at the end of the with block
WriteBack ==
    /\ pc = "write"
    /\ file' = fixed_content
    /\ nwrites' = nwrites + 1
    /\ pc' = "report"
    /\ UNCHANGED <<content, first_match, start_pos, next_method, end_pos,
                   fixed_content, stdout, exit_code, runs, nreads, nopens,
                   orig, before, exits>>

\* the two print calls, then the end of the script (exit status 0)
Report ==
    /\ pc = "report"
    /\ stdout' = stdout \o
          << <<"fixed_nuked",
               str_count(Slice(content, start_pos, end_pos), MethodName)>>,
             <<"inserted_clean", 1>> >>
    /\ exit_code' = 0
    /\ pc' = "done"
    /\ UNCHANGED <<file, content, first_match, start_pos, next_method, end_pos,
                   fixed_content, runs, nreads, nopens, nwrites,
                   orig, before, exits>>

\* the operator invokes the script again: a fresh process on the same file
Rerun ==
    /\ pc \in Terminal
    /\ runs < MaxRuns
    /\ runs' = runs + 1
    /\ exits' = Append(exits, exit_code)
    /\ before' = file
    /\ content' = <<>>
    /\ pc' = "read"
    /\ first_match' = None
    /\ start_pos' = None
    /\ next_method' = None
    /\ end_pos' = None
    /\ fixed_content' = <<>>
    /\ stdout' = <<>>
    /\ exit_code' = None
    /\ nreads' = 0
    /\ nopens' = 0
    /\ nwrites' = 0
    /\ UNCHANGED <<file, orig>>

RunStep ==
    \/ ReadFile
    \/ SearchFirst
    \/ SearchNext
    \/ ComputeFixed
    \/ OpenForWrite
    \/ WriteBack
    \/ Report

Next ==
    \/ ReadFile
    \/ SearchFirst
    \/ SearchNext
    \/ ComputeFixed
    \/ OpenForWrite
    \/ WriteBack
    \/ Report
    \/ Rerun

Spec == Init /\ [][Next]_vars

\* the script is straight-line code: a started run always takes its next step
FairSpec == Spec /\ WF_vars(RunStep)

(* ------------------- the same run on a failing file system ------------- *)
\* open(..., 'r') raises: nothing was read, nothing is written
ReadFail ==
    /\ pc = "read"
    /\ pc' = "crashed"
    /\ exit_code' = 1
    /\ UNCHANGED <<file, content, first_match, start_pos, next_method, end_pos,
                   fixed_content, stdout, runs, nreads, nopens, nwrites,
                   orig, before, exits>>

\* open(..., 'w') raises before the file is truncated
OpenFail ==
    /\ pc = "open"
    /\ pc' = "crashed"
    /\ exit_code' = 1
    /\ UNCHANGED <<file, content, first_match, start_pos, next_method, end_pos,
                   fixed_content, stdout, runs, nreads, nopens, nwrites,
                   orig, before, exits>>

\* f.write or the closing flush raises: some proper prefix reached the file
WriteFail ==
    /\ pc = "write"
    /\ \E n \in 0..(Len(fixed_content) - 1) : file' = Slice(fixed_content, 0, n)
    /\ pc' = "crashed"
    /\ exit_code' = 1
    /\ UNCHANGED <<content, first_match, start_pos, next_method, end_pos,
                   fixed_content, stdout, runs, nreads, nopens, nwrites,
                   orig, before, exits>>

NextIO ==
    \/ ReadFile
    \/ SearchFirst
    \/ SearchNext
    \/ ComputeFixed
    \/ OpenForWrite
    \/ WriteBack
    \/ Report
    \/ Rerun
    \/ ReadFail
    \/ OpenFail
    \/ WriteFail

SpecIO == Init /\ [][NextIO]_vars

(* --------------------- vocabulary of the properties -------------------- *)
\* offsets at which pat occurs in s
Occs(pat, s) == { i \in 0..Len(s) : MatchAt(pat, s, i) }

Least(S) == CHOOSE i \in S : \A j \in S : i <= j

HasMarker(s) == Occs(MethodPattern, s) # {}

FirstMarker(s) == Least(Occs(MethodPattern, s))

AnchorsAfter(s) == { i \in Occs(AnchorPattern, s) : i >= FirstMarker(s) }

\* both markers are present: an opening marker, and an anchor after the first
Located(s) == HasMarker(s) /\ AnchorsAfter(s) # {}

FirstAnchor(s) == Least(AnchorsAfter(s))

\* opening markers of s inside the offsets lo..hi-1
MarkersIn(s, lo, hi) == { i \in Occs(MethodPattern, s) : lo <= i /\ i < hi }

\* the number printed by the status line of a finished successful run
Printed == stdout[1][2]

IsPrefix(a, b) == Len(a) <= Len(b) /\ SubSeq(b, 1, Len(a)) = a

PastSearch == {"splice", "open", "write", "report", "done"}

\* the repaired document, written down from the input alone
Repaired(d) ==
    Slice(d, 0, FirstMarker(d)) \o CLEAN_METHOD \o Slice(d, FirstAnchor(d), Len(d))

(* ------------------------------ claims --------------------------------- *)
\* C1: when the input holds an opening marker and an anchor after the first
\* one, the finished run has written (input before the first marker) +
\* CLEAN_METHOD + (input from the first following anchor on); the canonical
\* block starts at the first marker's offset and the text on both sides of
\* the excised span is the input's.
C1_ReplaceAllFidelity ==
    (pc \in Terminal /\ Located(before)) =>
        LET m == FirstMarker(before)
            a == FirstAnchor(before)
        IN  /\ pc = "done"
            /\ file = Repaired(before)
            /\ Slice(file, 0, m) = Slice(before, 0, m)
            /\ Slice(file, m, m + Len(CLEAN_METHOD)) = CLEAN_METHOD
            /\ Slice(file, m + Len(CLEAN_METHOD), Len(file))
                  = Slice(before, a, Len(before))

C1_Witness ==
    /\ pc = "done"
    /\ runs = 1
    /\ FirstMarker(before) > 0
    /\ Cardinality(MarkersIn(before, 0, FirstAnchor(before))) >= 2
    /\ file = Repaired(before)

C3_NotFound ==
    ~Located(before) =>
        /\ nopens = 0 /\ nwrites = 0 /\ file = before
        /\ pc \notin {"splice", "open", "write", "report", "done"}
        /\ pc \in Terminal =>
              /\ pc = "exited"
              /\ exit_code = 1
              /\ stdout = IF HasMarker(before)
                          THEN << <<"no_optimizeDOMSurgically", 0>> >>
                          ELSE << <<"no_getPrioritizedPages", 0>> >>

C3_Witness ==
    /\ pc = "exited"
    /\ HasMarker(before)
    /\ Occs(AnchorPattern, before) = {}
    /\ exit_code = 1
    /\ file = before

\* C4: running twice leaves the file as one run left it; the second run
\* reports zero duplicates and does not rewrite the file.
C4_Idempotence ==
    (runs = 2 /\ pc \in Terminal) =>
        /\ file = before
        /\ nwrites = 0
        /\ pc = "done" => Printed = 0

\* C5 as stated: the file is written only when a duplicate was removed; with
\* 0 or 1 occurrence of the block there is no write and no change.
C5_NoOpOnSingle ==
    pc \in Terminal =>
        /\ nwrites > 0 => Cardinality(Occs(MethodPattern, before)) >= 2
        /\ Cardinality(Occs(MethodPattern, before)) <= 1
              => (nwrites = 0 /\ file = before)

\* C5 amended: the file is written on every run that finds both markers, also
\* when the input holds a single occurrence, and the written content then
\* differs from the input; a run that misses a marker (in particular one with
\* 0 occurrences) writes nothing and leaves the file unchanged.
C5_WriteIffLocated ==
    pc \in Terminal =>
        /\ nwrites = 1 <=> Located(before)
        /\ Located(before) => (nopens = 1 /\ file = fixed_content /\ file # before)
        /\ ~Located(before) => (nopens = 0 /\ nwrites = 0 /\ file = before)

C5_Witness ==
    /\ pc = "done"
    /\ Cardinality(Occs(MethodPattern, before)) = 1
    /\ nwrites = 1
    /\ file # before

\* C6: in every state of a run, also of one whose write fails, the file holds
\* the complete original or the complete repaired document.
C6_NoPartialWrites ==
    \/ file = before
    \/ Located(before) /\ file = Repaired(before)

\* C7 as stated: the printed number is the number of duplicates removed,
\* k - 1 for k occurrences of the block before the anchor.
C7_PrintsKMinusOne ==
    pc = "done" =>
        Printed = Cardinality(MarkersIn(before, FirstMarker(before),
                                        FirstAnchor(before))) - 1

\* C7 amended: the printed number is the number of occurrences of the text
\* 'private async getPrioritizedPages' in the excised span: every copy, the
\* first included, and every occurrence of the name without '('; it is at
\* least k, the number of opening markers in the span.
C7_PrintsNameCount ==
    pc = "done" =>
        LET m == FirstMarker(before)
            a == FirstAnchor(before)
        IN  /\ Printed = Cardinality({ i \in Occs(MethodName, before) :
                                         m <= i /\ i < a })
            /\ Printed >= Cardinality(MarkersIn(before, m, a))
            /\ Cardinality(MarkersIn(before, m, a)) >= 1
            /\ stdout = << <<"fixed_nuked", Printed>>, <<"inserted_clean", 1>> >>

C7_Witness ==
    /\ pc = "done"
    /\ Cardinality(MarkersIn(before, FirstMarker(before), FirstAnchor(before))) = 2
    /\ Printed = 2

\* C8: a run reads the file once, before any search, writes it at most once,
\* after both markers were located, and ends in exactly one of Persisted and
\* Untouched; a NotFound exit is Untouched; a finished run takes no further
\* step (the only step from a terminal state is a fresh invocation); every
\* started run reaches a terminal state.
Persisted == pc \in Terminal /\ nopens = 1 /\ nwrites = 1 /\ file = fixed_content

Untouched == pc \in Terminal /\ nopens = 0 /\ nwrites = 0 /\ file = before

C8_StateInv ==
    /\ nreads <= 1 /\ nwrites <= 1 /\ nopens <= 1
    /\ pc = "read" <=> nreads = 0
    /\ nreads = 0 => (first_match = None /\ next_method = None)
    /\ nopens > 0 => (first_match # None /\ next_method # None
                        /\ MatchAt(MethodPattern, content, first_match)
                        /\ MatchAt(AnchorPattern, content, start_pos + next_method))
    /\ pc \in Terminal => (Persisted # Untouched)
    /\ pc = "done" => (Persisted /\ exit_code = 0)
    /\ pc = "exited" => (Untouched /\ exit_code = 1)

C8_StepInv ==
    /\ nreads' # nreads => (nreads' = 0 \/ (content' = file /\ first_match = None))
    /\ pc \in Terminal =>
          (pc' = "read" /\ runs' = runs + 1 /\ file' = file /\ stdout' = <<>>)

C9_SpanWellFormed ==
    /\ pc \in PastSearch =>
          /\ 0 <= start_pos /\ start_pos < end_pos /\ end_pos <= Len(content)
          /\ IsPrefix(MethodPattern, Slice(content, start_pos, end_pos))
          /\ MatchAt(AnchorPattern, content, end_pos)
    /\ pc = "done" => Printed >= 1
    /\ (pc \in Terminal /\ HasMarker(before)
          /\ \A i \in Occs(AnchorPattern, before) : i < FirstMarker(before))
       => (pc = "exited" /\ stdout = << <<"no_optimizeDOMSurgically", 0>> >>)

C9_Witness ==
    /\ pc = "done"
    /\ runs = 1
    /\ start_pos > 0
    /\ \E i \in Occs(AnchorPattern, content) : i < start_pos
    /\ start_pos < end_pos

\* C10: after a successful run every later run succeeds too; through any
\* number of successful runs the text from the first anchor after the block
\* onward is that of the original input, and the text before the block still
\* starts with all the text the original had before its block.
C10_StableReruns ==
    /\ (pc \in Terminal /\ Len(exits) >= 1 /\ exits[Len(exits)] = 0)
          => (pc = "done" /\ exit_code = 0)
    /\ pc = "done" =>
          /\ Located(orig) /\ Located(file)
          /\ Slice(file, FirstAnchor(file), Len(file))
                = Slice(orig, FirstAnchor(orig), Len(orig))
          /\ IsPrefix(Slice(orig, 0, FirstMarker(orig)),
                      Slice(file, 0, FirstMarker(file)))

C10_Witness ==
    /\ pc = "done"
    /\ runs = 3
    /\ exits = <<0, 0>>
    /\ FirstMarker(orig) > 0
    /\ Len(orig) > FirstAnchor(orig) + Len(AnchorPattern)

====
